---- MODULE Spec2Model ----
(***************************************************************************)
(* Model of the ITypescript kernel's incremental transpiler                *)
(* (src/lib/kernel.js, Configuration.config: transpiler / execTranspile). *)
(*                                                                         *)
(* A raw cell is the sequence of its lines (the result of                  *)
(* rawCode.split("\n")).  A line is a tuple of lexical pieces:             *)
(*   <<"%", name, bang, value>>  a directive line "%name[!] value"         *)
(*   <<stmt>>                    a line of TypeScript code                 *)
(* Emitted JavaScript is a sequence of tokens in which "\n" is a token of  *)
(* its own, which is how diffLines sees it under newlineIsToken: true.     *)
(***************************************************************************)
EXTENDS Integers, Sequences, FiniteSets, TLC

\* ------------------------------------------------------------------ bounds
\* the lines submitted in a session, over all its cells
MaxInputLines == 4

\* the lines of a cell, where the directive parser is explored on its own
MaxPragmaLines == 3

\* the times the project configuration file is rewritten during a session
MaxConfigWrites == 1

\* the lines submitted in a session next to a project configuration
MaxConfigLines == 3

\* the arguments on the command line of the launcher
MaxArgs == 2

\* the images of one call of copyAsync
MaxImages == 2

\* the requests sent to one sandbox server
MaxRequests == 2

\* --------------------------------------------------------------- JS values
jsTrue == "#true"
jsFalse == "#false"
undefined == "#undefined"
SyntaxError == "#SyntaxError"
NL == "\n"

Truthy(v) == v = jsTrue

Not(v) == IF Truthy(v) THEN jsFalse ELSE jsTrue

\* ts.ModuleKind.CommonJS, ts.ModuleKind.ES2015, ts.ModuleResolutionKind.Classic
\* and ts.ModuleResolutionKind.NodeJs: the numbers 1, 5, 1 and 2
CommonJS == "#1"
ES2015 == "#5"
Classic == "#1"
NodeJs == "#2"

\* JSON.parse of a directive's value text
JSONparse(text) ==
    CASE text = "true" -> jsTrue
      [] text = "false" -> jsFalse
      [] text = "1" -> "#1"
      [] text = "5" -> "#5"
      [] OTHER -> SyntaxError

\* ------------------------------------------------------------ the alphabet
OptionNames == {"strict", "esModuleInterop", "module", "moduleResolution", "noEmit"}

CodeLines == {<<"import m">>, <<"function f(a) {}">>, <<"let = ;">>}

DirectiveLines ==
    {<<"%", "strict", "!", "true">>, <<"%", "strict", "", "false">>,
     <<"%", "esModuleInterop", "", "false">>, <<"%", "strict", "", "tru">>}

Lines == CodeLines \cup DirectiveLines

\* the lines the directive parser is explored with
PragmaLines ==
    DirectiveLines \cup
    {<<"%", "module", "", "5">>, <<"%", "module", "!", "5">>, <<"%", "Target", "", "1">>,
     <<"%", "moduleResolution", "", "1">>, <<"%", "async", "", "">>, <<"import m">>}

RECURSIVE SeqsUpTo(_, _)
SeqsUpTo(S, n) ==
    IF n = 0 THEN {<<>>}
    ELSE LET shorter == SeqsUpTo(S, n - 1)
         IN  shorter \cup {Append(q, x) : q \in {r \in shorter : Len(r) = n - 1}, x \in S}

\* the raw cells of at most n lines; rawCode.split("\n") always has at least
\* one element
RawCells == [n \in 0..MaxInputLines |-> SeqsUpTo(Lines, n) \ {<<>>}]

PragmaCells == SeqsUpTo(PragmaLines, MaxPragmaLines) \ {<<>>}

\* cells of code alone
CodeCells == SeqsUpTo(CodeLines, MaxInputLines) \ {<<>>}

\* ----------------------------------------------------------- array helpers
\* a join that puts nothing between the pieces
RECURSIVE JoinNothing(_)
JoinNothing(parts) ==
    IF parts = <<>> THEN <<>> ELSE parts[1] \o JoinNothing(Tail(parts))

\* Array.prototype.join("\n") over pieces of text
RECURSIVE JoinNL(_)
JoinNL(parts) ==
    IF parts = <<>> THEN <<>>
    ELSE IF Len(parts) = 1 THEN parts[1]
         ELSE parts[1] \o <<NL>> \o JoinNL(Tail(parts))

\* x.startsWith("%")
StartsWithPercent(x) == x[1] = "%"

\* x.trim().startsWith("import ")
StartsWithImport(x) == x[1] = "import m"

\* ------------------------------------------- the TypeScript language service
\* What the service reports and emits for the synthetic file, given the
\* buffer (snapshot.join("\n")) and the compilation settings (copiedOpts).

\* services.getSyntacticDiagnostics: one per line that does not parse; a
\* "%..." line left in the code is not TypeScript.
IsSyntaxError(x) == StartsWithPercent(x) \/ x[1] = "let = ;"

\* services.getSemanticDiagnostics: an untyped parameter is an error
\* (implicit any) when "strict" is on.
IsSemanticError(x, opts) == x[1] = "function f(a) {}" /\ Truthy(opts["strict"])

RECURSIVE DiagnosticsFrom(_, _, _, _)
DiagnosticsFrom(snap, opts, i, semantic) ==
    IF i > Len(snap) THEN <<>>
    ELSE LET hit == IF semantic THEN IsSemanticError(snap[i], opts)
                    ELSE IsSyntaxError(snap[i])
             d == [line |-> i - 1, code |-> IF semantic THEN "TS7006" ELSE "TS1005"]
         IN  (IF hit THEN <<d>> ELSE <<>>) \o DiagnosticsFrom(snap, opts, i + 1, semantic)

\* getCompilerOptionsDiagnostics().concat(syntactic).concat(semantic);
\* diagnostic.line is the zero-based line of the buffer
AllDiagnostics(snap, opts) ==
    DiagnosticsFrom(snap, opts, 1, FALSE) \o DiagnosticsFrom(snap, opts, 1, TRUE)

\* output.emitSkipped: the program emits nothing when "noEmit" is on
EmitSkipped(snap, opts) == Truthy(opts["noEmit"])

\* the JavaScript emitted for one source line
EmitLine(x, opts) ==
    CASE x[1] = "$$.async();" -> <<"$$.async();", NL>>
      [] x[1] = "function f(a) {}" -> <<"function f(a) { }", NL>>
      [] x[1] = "import m" ->
            IF Truthy(opts["esModuleInterop"])
            THEN <<"var m = __importStar(require(\"m\"));", NL>>
            ELSE <<"var m = require(\"m\");", NL>>
      [] OTHER -> <<";", NL>>

RECURSIVE EmitLines(_, _)
EmitLines(snap, opts) ==
    IF snap = <<>> THEN <<>>
    ELSE EmitLine(Head(snap), opts) \o EmitLines(Tail(snap), opts)

\* a file with an import is a module: its emission opens with a prologue
Prologue(snap) ==
    IF \E i \in 1..Len(snap) : StartsWithImport(snap[i])
    THEN <<"\"use strict\";", NL>>
    ELSE <<>>

\* output.outputFiles[0].text: the emission of the whole buffer
EmitOutput(snap, opts) == Prologue(snap) \o EmitLines(snap, opts)

\* ------------------------------------------------------------ diff.diffLines
\* The Myers search of the "diff" package over the tokens of the two texts.
\* A path is [np |-> number of new tokens consumed, ops |-> one of "c"
\* (common), "a" (added), "r" (removed) per step]; NoPath is an unset slot.
NoPath == [np |-> -1, ops |-> <<>>]

PathAt(bestPath, d) == IF d \in DOMAIN bestPath THEN bestPath[d] ELSE NoPath

\* extractCommon: follow the diagonal while the tokens agree
RECURSIVE ExtractCommon(_, _, _, _)
ExtractCommon(path, newString, oldString, diagonalPath) ==
    LET np == path.np
        op == np - diagonalPath
    IN  IF np < Len(newString) /\ op < Len(oldString) /\ newString[np + 1] = oldString[op + 1]
        THEN ExtractCommon([np |-> np + 1, ops |-> Append(path.ops, "c")],
                           newString, oldString, diagonalPath)
        ELSE path

AtEnd(path, newString, oldString, diagonalPath) ==
    path.np >= Len(newString) /\ path.np - diagonalPath >= Len(oldString)

\* execEditLength: the diagonals -editLength, -editLength + 2, .. in order
RECURSIVE ExecEditLength(_, _, _, _, _, _)
ExecEditLength(editLength, diagonalPath, bestPath, nextPath, newString, oldString) ==
    IF diagonalPath > editLength
    THEN ExecEditLength(editLength + 1, -(editLength + 1), nextPath, <<>>,
                        newString, oldString)
    ELSE
    LET addPath == PathAt(bestPath, diagonalPath - 1)
        removePath == PathAt(bestPath, diagonalPath + 1)
        canAdd == addPath # NoPath /\ addPath.np < Len(newString)
        canRemove == removePath # NoPath
                        /\ 1 <= removePath.np - diagonalPath
                        /\ removePath.np - diagonalPath <= Len(oldString)
        basePath == IF ~canAdd \/ (canRemove /\ addPath.np < removePath.np)
                    THEN [np |-> removePath.np, ops |-> Append(removePath.ops, "r")]
                    ELSE [np |-> addPath.np + 1, ops |-> Append(addPath.ops, "a")]
        path == ExtractCommon(basePath, newString, oldString, diagonalPath)
    IN  IF ~canAdd /\ ~canRemove
        THEN ExecEditLength(editLength, diagonalPath + 2, bestPath, nextPath,
                            newString, oldString)
        ELSE IF AtEnd(path, newString, oldString, diagonalPath)
             THEN path.ops
             ELSE ExecEditLength(editLength, diagonalPath + 2, bestPath,
                                 (diagonalPath :> path) @@ nextPath,
                                 newString, oldString)

\* the edit script from oldString to newString
DiffOps(oldString, newString) ==
    LET seed == ExtractCommon([np |-> 0, ops |-> <<>>], newString, oldString, 0)
    IN  IF AtEnd(seed, newString, oldString, 0) THEN seed.ops
        ELSE ExecEditLength(1, -1, (0 :> seed), <<>>, newString, oldString)

\* the values of the added components, in order: a component is a maximal run
\* of steps of one kind; `np` new tokens are consumed, `cur` is the open run
RECURSIVE AddedValues(_, _, _, _, _)
AddedValues(ops, i, np, newString, cur) ==
    IF i > Len(ops) THEN (IF cur = <<>> THEN <<>> ELSE <<cur>>)
    ELSE IF ops[i] = "a"
         THEN AddedValues(ops, i + 1, np + 1, newString, Append(cur, newString[np + 1]))
         ELSE (IF cur = <<>> THEN <<>> ELSE <<cur>>)
                \o AddedValues(ops, i + 1, IF ops[i] = "c" THEN np + 1 ELSE np,
                               newString, <<>>)

\* a differ that takes what follows the length of the old text for the new part
DiffLinesBySlice(oldString, newString) ==
    IF Len(newString) > Len(oldString)
    THEN <<SubSeq(newString, Len(oldString) + 1, Len(newString))>>
    ELSE <<>>

\* diff.diffLines(a, b, {newlineIsToken: true}).filter(s => s.added).map(s => s.value)
DiffLinesAdded(oldString, newString) ==
    AddedValues(DiffOps(oldString, newString), 1, 0, newString, <<>>)

\* ---------------------------------------------------- Configuration.parseOptions
\* keyword.toLowerCase()
ToLowerCase(name) ==
    CASE name = "esModuleInterop" -> "esmoduleinterop"
      [] name = "moduleResolution" -> "moduleresolution"
      [] name = "Target" -> "target"
      [] name = "Local" -> "local"
      [] OTHER -> name

\* result.compiler[keyword] = val on an object: a property keeps the place of
\* its first assignment and the value of its last
RECURSIVE SetProperty(_, _, _)
SetProperty(props, key, val) ==
    IF props = <<>> THEN <<[key |-> key, val |-> val]>>
    ELSE IF Head(props).key = key THEN <<[key |-> key, val |-> val]>> \o Tail(props)
         ELSE <<Head(props)>> \o SetProperty(Tail(props), key, val)

\* a parser that leaves out the fixed options when they carry a "!" as well
RECURSIVE parseOptionsFixedAlways(_)
parseOptionsFixedAlways(lines) ==
    IF lines = <<>> THEN [kernel |-> FALSE, compiler |-> <<>>]
    ELSE LET line == lines[Len(lines)]
             result == parseOptionsFixedAlways(SubSeq(lines, 1, Len(lines) - 1))
             keyword == <<line[2], line[3]>>
             val == line[4]
             lower == <<ToLowerCase(keyword[1]), keyword[2]>>
         IN  CASE lower \in {<<"async", "">>, <<"asynchronous", "">>} ->
                    [result EXCEPT !.kernel = TRUE]
               [] lower[1] \in {"module", "jsx", "target"} -> result
               [] OTHER ->
                    [result EXCEPT !.compiler = SetProperty(@, keyword, val)]

\* the keyword of "%name[!] value" is name followed by the "!", if any
RECURSIVE parseOptions(_)
parseOptions(lines) ==
    IF lines = <<>> THEN [kernel |-> FALSE, compiler |-> <<>>]
    ELSE LET line == lines[Len(lines)]
             result == parseOptions(SubSeq(lines, 1, Len(lines) - 1))
             keyword == <<line[2], line[3]>>
             val == line[4]
             lower == <<ToLowerCase(keyword[1]), keyword[2]>>
         IN  CASE lower \in {<<"async", "">>, <<"asynchronous", "">>} ->
                    [result EXCEPT !.kernel = TRUE]
               [] lower \in {<<"module", "">>, <<"jsx", "">>, <<"target", "">>,
                            <<"moduleResolution", "">>} -> result
               [] OTHER ->
                    [result EXCEPT !.compiler = SetProperty(@, keyword, val)]

\* --------------------------------------------------------------- transpiler
\* The closure state of Configuration.config as a record s:
\*   snapshot, workFileVersion, prevLines, prevJSCode, copiedOpts, options,
\*   tsConfigWarnings; and langServCalls, which counts the calls of execTranspile

\* key.endsWith("!")
IsPermanent(key) == key[2] = "!"

\* key.replace(/!$/, "")
KeyName(key) == key[1]

\* lines 241-251: the loop over the overriding compiler options; JSON.parse
\* throws on a malformed value and leaves the assignments made so far
RECURSIVE ApplyOverrides(_, _, _)
ApplyOverrides(props, copied, opts) ==
    IF props = <<>> THEN [copiedOpts |-> copied, options |-> opts, thrown |-> FALSE]
    ELSE LET key == Head(props).key
             isPermanent == IsPermanent(key)
             keyname == KeyName(key)
             parsed == JSONparse(Head(props).val)
         IN  IF parsed = SyntaxError
             THEN [copiedOpts |-> copied, options |-> opts, thrown |-> TRUE]
             ELSE ApplyOverrides(Tail(props),
                                 [copied EXCEPT ![keyname] = parsed],
                                 IF isPermanent THEN [opts EXCEPT ![keyname] = parsed]
                                 ELSE opts)

\* a restore that deletes the overridden keys instead of copying them back
RECURSIVE RestoreByDelete(_, _, _)
RestoreByDelete(props, copied, opts) ==
    IF props = <<>> THEN copied
    ELSE LET keyname == KeyName(Head(props).key)
         IN  RestoreByDelete(Tail(props), [copied EXCEPT ![keyname] = undefined], opts)

\* lines 279-283: copiedOpts[keyname] = options[keyname] for every overridden key
RECURSIVE RestoreOverrides(_, _, _)
RestoreOverrides(props, copied, opts) ==
    IF props = <<>> THEN copied
    ELSE LET keyname == KeyName(Head(props).key)
         IN  RestoreOverrides(Tail(props), [copied EXCEPT ![keyname] = opts[keyname]], opts)

InteropWarning == "The option 'esModuleInterop' is not true!"
NoConfigWarning == "Configuration is not found!"

\* lines 255-261
QueueInteropWarning(warnings, off, code, copied) ==
    IF ~off /\ (\E i \in 1..Len(code) : StartsWithImport(code[i]))
            /\ ~Truthy(copied["esModuleInterop"])
    THEN Append(warnings, InteropWarning)
    ELSE warnings

\* lines 231-240: the directive lines parsed, the code lines kept
ParseCell(rawCode) ==
    LET hasOverride == StartsWithPercent(rawCode[1])
        overrideOptions == IF hasOverride
                           THEN parseOptions(SelectSeq(rawCode, StartsWithPercent))
                           ELSE [kernel |-> FALSE, compiler |-> <<>>]  \* null
        stripped == IF hasOverride
                    THEN SelectSeq(rawCode, LAMBDA x : ~StartsWithPercent(x))
                    ELSE rawCode
    IN  [overrideOptions |-> overrideOptions,
         code |-> IF overrideOptions.kernel THEN <<<<"$$.async();">>>> \o stripped
                  ELSE stripped]

\* a version that is not advanced
NextVersionStays(version) == version

\* line 253: workFileVersion += 1
NextVersion(version) == version + 1

\* a staging that puts the cell in front of the buffer
StagePrepends(s, off, code) ==
    [s EXCEPT !.workFileVersion = NextVersion(@),
              !.snapshot = code \o @,
              !.tsConfigWarnings = QueueInteropWarning(@, off, code, s.copiedOpts)]

\* a staging that looks for the interop option in the base options
StageWarnsOnBase(s, off, code) ==
    [s EXCEPT !.workFileVersion = NextVersion(@),
              !.snapshot = @ \o code,
              !.tsConfigWarnings = QueueInteropWarning(@, off, code, s.options)]

\* lines 253-261: the version advanced, the code staged, the warning queued
Stage(s, off, code) ==
    [s EXCEPT !.workFileVersion = NextVersion(@),
              !.snapshot = @ \o code,
              !.tsConfigWarnings = QueueInteropWarning(@, off, code, s.copiedOpts)]

\* a head that stages the cell before it parses the directive values
TranspilerHeadStagesFirst(s, off, rawCode) ==
    LET cell == ParseCell(rawCode)
        staged == Stage(s, off, cell.code)
        applied == ApplyOverrides(cell.overrideOptions.compiler, s.copiedOpts, s.options)
    IN  [s |-> [staged EXCEPT !.copiedOpts = applied.copiedOpts,
                              !.options = applied.options],
         thrown |-> applied.thrown,
         code |-> cell.code,
         overrideOptions |-> cell.overrideOptions]

\* lines 231-261: everything before the try block.  thrown: JSON.parse threw,
\* and nothing after line 245 ran
TranspilerHead(s, off, rawCode) ==
    LET cell == ParseCell(rawCode)
        applied == ApplyOverrides(cell.overrideOptions.compiler, s.copiedOpts, s.options)
        overridden == [s EXCEPT !.copiedOpts = applied.copiedOpts,
                                !.options = applied.options]
    IN  [s |-> IF applied.thrown THEN overridden ELSE Stage(overridden, off, cell.code),
         thrown |-> applied.thrown,
         code |-> cell.code,
         overrideOptions |-> cell.overrideOptions]

\* a formatter that takes the last committed line for a conflict as well
FormatDiagnosticConflictAtZero(diagnostic, snap, committed) ==
    LET theErrorLine == snap[diagnostic.line + 1]
        line == diagnostic.line - (committed - 1)
    IN  IF line <= 0
        THEN [head |-> "Conflict with a committed line", line |-> 0,
              theErrorLine |-> theErrorLine, code |-> diagnostic.code]
        ELSE [head |-> "Line", line |-> line,
              theErrorLine |-> theErrorLine, code |-> diagnostic.code]

\* lines 203-226: the entry of one diagnostic of the synthetic file
FormatDiagnostic(diagnostic, snap, committed) ==
    LET theErrorLine == snap[diagnostic.line + 1]
        line == diagnostic.line - (committed - 1)
    IN  IF line < 0
        THEN [head |-> "Conflict with a committed line", line |-> 0,
              theErrorLine |-> theErrorLine, code |-> diagnostic.code]
        ELSE [head |-> "Line", line |-> line,
              theErrorLine |-> theErrorLine, code |-> diagnostic.code]

\* a compile that returns what was emitted when emission was skipped
execTranspileIgnoresSkipped(s) ==
    LET allDiagnostics == AllDiagnostics(s.snapshot, s.copiedOpts)
    IN  IF Len(allDiagnostics) > 0
        THEN [thrown |-> TRUE,
              message |-> [i \in 1..Len(allDiagnostics) |->
                              FormatDiagnostic(allDiagnostics[i], s.snapshot, s.prevLines)],
              text |-> <<>>]
        ELSE [thrown |-> FALSE, message |-> <<>>,
              text |-> EmitOutput(s.snapshot, s.copiedOpts)]

\* a compile that throws the first diagnostic alone
execTranspileFirstDiagnostic(s) ==
    LET allDiagnostics == AllDiagnostics(s.snapshot, s.copiedOpts)
    IN  IF EmitSkipped(s.snapshot, s.copiedOpts) \/ Len(allDiagnostics) > 0
        THEN [thrown |-> TRUE,
              message |-> [i \in 1..(IF allDiagnostics = <<>> THEN 0 ELSE 1) |->
                              FormatDiagnostic(allDiagnostics[i], s.snapshot, s.prevLines)],
              text |-> <<>>]
        ELSE [thrown |-> FALSE, message |-> <<>>,
              text |-> EmitOutput(s.snapshot, s.copiedOpts)]

\* lines 196-229
execTranspile(s) ==
    LET allDiagnostics == AllDiagnostics(s.snapshot, s.copiedOpts)
    IN  IF EmitSkipped(s.snapshot, s.copiedOpts) \/ Len(allDiagnostics) > 0
        THEN [thrown |-> TRUE,
              message |-> [i \in 1..Len(allDiagnostics) |->
                              FormatDiagnostic(allDiagnostics[i], s.snapshot, s.prevLines)],
              text |-> <<>>]
        ELSE [thrown |-> FALSE, message |-> <<>>,
              text |-> EmitOutput(s.snapshot, s.copiedOpts)]

\* a catch that leaves the staged lines in the buffer
RollbackKeepsStaged(snap, committed) == snap

\* line 288: snapshot = snapshot.slice(0, prevLines)
Rollback(snap, committed) == SubSeq(snap, 1, committed)

\* a committed count that misses the last line
CommittedCountShort(snap) == IF snap = <<>> THEN 0 ELSE Len(snap) - 1

\* line 266: prevLines = snapshot.length
CommittedCount(snap) == Len(snap)

\* lines 270-273: the queued warnings as display statements
WarningStatements(warnings) ==
    JoinNL([i \in 1..Len(warnings) |-> <<"$$.html(" , warnings[i], ");", NL>>])

\* a delivery that does not wait for the second compile
PrependsWarningsAlways(version) == TRUE

\* line 268
PrependsWarnings(version) == version > 1

\* a catch that takes the version back as well
TranspilerTryRestoresVersion(s, overrideOptions) ==
    LET generated == execTranspile(s)
        codeslice == JoinNL(DiffLinesAdded(s.prevJSCode, generated.text))
        prepend == PrependsWarnings(s.workFileVersion)
    IN  IF generated.thrown
        THEN [s |-> [s EXCEPT !.snapshot = Rollback(s.snapshot, s.prevLines),
                              !.workFileVersion = @ - 1,
                              !.langServCalls = @ + 1],
              outcome |-> "rejected", value |-> generated.message, codeslice |-> <<>>]
        ELSE [s |-> [s EXCEPT !.prevLines = CommittedCount(s.snapshot),
                              !.prevJSCode = generated.text,
                              !.tsConfigWarnings = IF prepend THEN <<>> ELSE @,
                              !.copiedOpts = RestoreOverrides(overrideOptions.compiler,
                                                              @, s.options),
                              !.langServCalls = @ + 1],
              outcome |-> "accepted",
              value |-> IF prepend THEN WarningStatements(s.tsConfigWarnings) \o codeslice
                        ELSE codeslice,
              codeslice |-> codeslice]

\* lines 262-290: the try block and its catch
TranspilerTry(s, overrideOptions) ==
    LET generated == execTranspile(s)
        codeslice == JoinNL(DiffLinesAdded(s.prevJSCode, generated.text))
        prepend == PrependsWarnings(s.workFileVersion)
    IN  IF generated.thrown
        THEN [s |-> [s EXCEPT !.snapshot = Rollback(s.snapshot, s.prevLines),
                              !.langServCalls = @ + 1],
              outcome |-> "rejected", value |-> generated.message, codeslice |-> <<>>]
        ELSE [s |-> [s EXCEPT !.prevLines = CommittedCount(s.snapshot),
                              !.prevJSCode = generated.text,
                              !.tsConfigWarnings = IF prepend THEN <<>> ELSE @,
                              !.copiedOpts = RestoreOverrides(overrideOptions.compiler,
                                                              @, s.options),
                              !.langServCalls = @ + 1],
              outcome |-> "accepted",
              value |-> IF prepend THEN WarningStatements(s.tsConfigWarnings) \o codeslice
                        ELSE codeslice,
              codeslice |-> codeslice]

\* the whole of transpiler(rawCode), lines 230-291
Transpiler(s, off, rawCode) ==
    LET head == TranspilerHead(s, off, rawCode)
    IN  IF head.thrown
        THEN [s |-> head.s, outcome |-> "malformed", value |-> <<>>, codeslice |-> <<>>]
        ELSE TranspilerTry(head.s, head.overrideOptions)

\* ------------------------------------------------------ bin/itypescript.ts
\* An argument e is written as the pieces of e.slice(2).split("="),
\* <<name, value, ...>>, and a text made by join("=") as its pieces.
null == "#null"

\* the command line arguments the launcher is tried with
LauncherArgs ==
    {<<"ts-debug">>, <<"ts-off-es-module-interop">>, <<"ts-hide-undefined">>,
     <<"ts-hide-execution-result">>, <<"ts-protocol", "5.0">>,
     <<"ts-startup-script", "s.ts">>, <<"ts-working-dir", "w">>, <<"ts-check">>,
     <<"help">>, <<"version">>, <<"install", "local">>, <<"install", "global">>,
     <<"install", "Local">>, <<"install">>, <<"install", "elsewhere">>,
     <<"KernelManager.kernel_cmd", "x">>, <<"no-browser">>}

\* name.lastIndexOf("ts", 0) === 0
StartsWithTs(name) ==
    name \in {"ts-debug", "ts-off-es-module-interop", "ts-hide-undefined",
              "ts-hide-execution-result", "ts-protocol", "ts-startup-script",
              "ts-working-dir", "ts-check"}

\* name.slice(3)
Slice3(name) ==
    CASE name = "ts-debug" -> "debug"
      [] name = "ts-off-es-module-interop" -> "off-es-module-interop"
      [] name = "ts-hide-undefined" -> "hide-undefined"
      [] name = "ts-hide-execution-result" -> "hide-execution-result"
      [] name = "ts-protocol" -> "protocol"
      [] name = "ts-startup-script" -> "startup-script"
      [] name = "ts-working-dir" -> "working-dir"
      [] name = "ts-check" -> "check"

\* what `jupyter --version` and `ipython --version` print
FrontendVersions == {"2.4.1", "4.4.0", "n/a"}

ExecError == "#error"

\* isNaN(parseInt(ver.split(".")[0]))
IsNaNVersion(ver) == ver \notin {"2.4.1", "4.4.0"}

\* lines 238-247: parseInt(ver.split(".")[0])
majorVersionOf(ver) ==
    CASE ver = "2.4.1" -> 2
      [] ver = "4.4.0" -> 4
      [] OTHER -> 0

\* !x of a string or null
Falsy(x) == x = null \/ x = ""

ConnectionFile == <<"{connection_file}">>

\* the statics of Main and Arguments when the script is loaded (lines
\* 190-198 and 252-259); exited: the code of process.exit
Loaded ==
    [Main |-> [protocolVersion |-> <<null>>, frontendVersion |-> null,
               frontIdentificationError |-> null, installLoc |-> null],
     Arguments |-> [kernel |-> << <<"node">>, <<"lib/kernel.js">> >>,
                    frontend |-> << <<"jupyter">>, <<"notebook">> >>],
     exited |-> null]

\* lines 218-220
passToKernel(st, args) == [st EXCEPT !.Arguments.kernel = Append(@, args)]

\* lines 223-225
passToFrontend(st, args) == [st EXCEPT !.Arguments.frontend = Append(@, args)]

\* lines 228-230
callFrontendWith(st, path) == [st EXCEPT !.Arguments.frontend[1] = <<path>>]

\* process.exit(code)
Exit(st, code) == [st EXCEPT !.exited = code]

\* lines 275-325: the body of the loop of Main.prepare for argument e
PrepareArgument(st, e) ==
    LET name == e[1]
        values == Tail(e)
    IN  IF StartsWithTs(name)
        THEN LET subname == Slice3(name)
                 st1 == IF subname = "protocol"
                        THEN [st EXCEPT !.Main.protocolVersion = values]
                        ELSE st
             IN  CASE subname \in {"debug", "off-es-module-interop", "hide-undefined",
                                   "hide-execution-result"} ->
                          passToKernel(st1, <<subname>>)
                   [] subname \in {"protocol", "startup-script", "working-dir"} ->
                          passToKernel(st1, <<subname>> \o values)
                   [] OTHER -> Exit(st1, "1")
        ELSE CASE name = "help" -> passToFrontend(st, e)
               [] name = "version" -> Exit(st, "0")
               [] name = "install" ->
                      LET installLoc == IF Len(values) > 0 THEN ToLowerCase(values[1])
                                        ELSE ""
                          st1 == [st EXCEPT !.Main.installLoc = installLoc]
                      IN  IF installLoc # "local" /\ installLoc # "global"
                          THEN Exit(st1, "1")
                          ELSE st1
               [] name = "KernelManager.kernel_cmd" -> st
               [] OTHER -> passToFrontend(st, e)

\* lines 271-333: Main.prepare up to its callback; the loop ends where the
\* process exits
RECURSIVE PrepareFrom(_, _, _)
PrepareFrom(st, extraArgs, i) ==
    IF st.exited # null THEN st
    ELSE IF i > Len(extraArgs) THEN passToKernel(st, ConnectionFile)
         ELSE PrepareFrom(PrepareArgument(st, extraArgs[i]), extraArgs, i + 1)

prepare(st, extraArgs) == PrepareFrom(st, extraArgs, 1)

\* lines 340-357: Main.setProtocol; the frontend argument
\* --KernelManager.kernel_cmd holds the kernel arguments of that moment
setProtocol(st) ==
    IF IsNaNVersion(st.Main.frontendVersion) THEN Exit(st, "1")
    ELSE IF majorVersionOf(st.Main.frontendVersion) < 3
         THEN LET st1 == passToKernel([st EXCEPT !.Main.protocolVersion = <<"4.1">>],
                                      <<"protocol", "4.1">>)
              IN  passToFrontend(st1, <<"KernelManager.kernel_cmd", "[kernel]">>)
         ELSE passToKernel([st EXCEPT !.Main.protocolVersion = <<"5.1">>],
                           <<"protocol", "5.1">>)

\* a launch that opens the dashboard after it registered the kernel
SpawnsFrontendAlways(installLoc) == TRUE

\* line 575: if (!Main.installLoc) Main.spawnFrontend()
SpawnsFrontend(installLoc) == Falsy(installLoc)

\* ------------------------------------------------------- Main.copyAsync
ImageNames == {"logo-32x32.png", "logo-64x64.png"}

\* line 538: the images of the call in installKernelAsync
Logos == <<"logo-32x32.png", "logo-64x64.png">>

\* no call of copyAsync yet
NotCopying ==
    [started |-> FALSE, images |-> <<>>, callback |-> FALSE, dstFiles |-> <<>>,
     callStack |-> <<>>, streams |-> <<>>, called |-> 0, passed |-> <<>>,
     thrown |-> FALSE]

\* lines 440-444 and 446-461: the functions pushed on callStack, the one
\* that calls the callback first, then one for each image
PushedFunctions(images, callback) ==
    (IF callback THEN <<[kind |-> "callback", img |-> 0]>> ELSE <<>>)
        \o [i \in 1..Len(images) |-> [kind |-> "copy", img |-> i]]

\* a function of callStack is called: the callback with the destination
\* paths (442), or the streams of an image are opened and piped (452-458)
CallFunction(c, top) ==
    IF top.kind = "callback"
    THEN [c EXCEPT !.called = @ + 1, !.passed = c.dstFiles]
    ELSE [c EXCEPT !.streams[top.img] = [read |-> "open", write |-> "open"]]

\* a pop that leaves the callback on the stack
PopAndCallKeepsCallback(c) ==
    LET n == Len(c.callStack)
    IN  IF n = 0 THEN [c EXCEPT !.thrown = TRUE]
        ELSE IF c.callStack[n].kind = "callback" THEN CallFunction(c, c.callStack[n])
             ELSE CallFunction([c EXCEPT !.callStack = SubSeq(@, 1, n - 1)], c.callStack[n])

\* lines 455-456 and 463-464: let top = callStack.pop(); top!(); on an empty
\* stack top is undefined and the call throws a TypeError
PopAndCall(c) ==
    LET n == Len(c.callStack)
    IN  IF n = 0 THEN [c EXCEPT !.thrown = TRUE]
        ELSE CallFunction([c EXCEPT !.callStack = SubSeq(@, 1, n - 1)], c.callStack[n])

\* lines 436-465: the call copyAsync(srcDir, dstDir, callback, ...images),
\* up to its return
copyAsync(images, callback) ==
    PopAndCall([NotCopying EXCEPT !.started = TRUE,
                                  !.images = images,
                                  !.callback = callback,
                                  !.dstFiles = images,
                                  !.callStack = PushedFunctions(images, callback),
                                  !.streams = [i \in 1..Len(images) |->
                                                  [read |-> "none", write |-> "none"]]])

\* lines 454-458: the read stream of image i ends: the handler of line 454
\* runs first, then the one pipe added, which ends the write stream
OnEnd(c, i) ==
    PopAndCall([c EXCEPT !.streams[i] = [read |-> "ended", write |-> "ending"]])

\* the write stream of image i has written everything
OnFinish(c, i) == [c EXCEPT !.streams[i].write = "finished"]

\* the destination files that exist
Created(c) == {c.images[i] : i \in {j \in 1..Len(c.images) : c.streams[j].write # "none"}}

\* lines 471-498: the temporary directory, the spec directory in it and
\* kernel.json
SpecFiles == {"tmpdir", "tmpdir/typescript", "kernel.json"}

\* a clean-up that leaves the logos
RemoveSpecKeepsLogos(files, dstFiles) == files \ SpecFiles

\* lines 517-522: unlinkSync(specFile), unlinkSync of each copied file,
\* rmdirSync(specDir), rmdirSync(tmpdir)
RemoveSpec(files, dstFiles) ==
    files \ (SpecFiles \cup {dstFiles[i] : i \in 1..Len(dstFiles)})

\* ---------------------------------------------------------- sm_server.js
\* A JavaScript value of the sandbox: its type, what util.inspect prints,
\* its own property names, and, where it has them as strings, its name,
\* message and stack (has: the ones it has).
JSValue(type, text, own) ==
    [type |-> type, text |-> text, own |-> own, has |-> {},
     name |-> <<>>, message |-> <<>>, stack |-> <<>>]

\* an Error object made by the engine or by new Error(message)
ErrorObject(name, message) ==
    [type |-> "error", text |-> <<name, ":", " ">> \o message, own |-> {"stack", "message"},
     has |-> {"name", "message", "stack"},
     name |-> <<name>>, message |-> message,
     stack |-> <<name, ":", " ">> \o message \o <<NL, "    at evalmachine.<anonymous>:1">>]

Returns(v) == [threw |-> FALSE, v |-> v]
Throws(v) == [threw |-> TRUE, v |-> v]

\* the code of the requests
SandboxCodes ==
    {"1 + 1", "var x", "null", "({a: 1})", "'<b>'", "throw new Error('boom')", "x.y",
     "(", "throw 'boom'", "throw null", "throw {code: 1}"}

\* lines 109-111: vm.runInThisContext(code): the value of the code, or
\* what it throws
run(code) ==
    CASE code = "1 + 1" -> Returns(JSValue("number", <<"2">>, {}))
      [] code = "var x" -> Returns(JSValue("undefined", <<"undefined">>, {}))
      [] code = "null" -> Returns(JSValue("null", <<"null">>, {}))
      [] code = "({a: 1})" -> Returns(JSValue("object", <<"{", " ", "a: 1", " ", "}">>, {"a"}))
      [] code = "'<b>'" ->
           Returns(JSValue("string", <<"'", "<", "b", ">", "'">>, {"0", "1", "2", "length"}))
      [] code = "throw new Error('boom')" -> Throws(ErrorObject("Error", <<"boom">>))
      [] code = "x.y" -> Throws(ErrorObject("ReferenceError", <<"x is not defined">>))
      [] code = "(" -> Throws(ErrorObject("SyntaxError", <<"Unexpected end of input">>))
      [] code = "throw 'boom'" -> Throws(JSValue("string", <<"'", "boom", "'">>, {"0", "1", "2", "3", "length"}))
      [] code = "throw null" -> Throws(JSValue("null", <<"null">>, {}))
      [] OTHER -> Throws(JSValue("object", <<"{", " ", "code: 1", " ", "}">>, {"code"}))

\* the properties of the prototypes of a value, two of each prototype
PrototypeNames(type) ==
    CASE type = "number" -> {"toFixed", "toPrecision", "hasOwnProperty", "isPrototypeOf"}
      [] type = "string" -> {"charAt", "concat", "hasOwnProperty", "isPrototypeOf"}
      [] type = "error" -> {"name", "message", "hasOwnProperty", "isPrototypeOf"}
      [] OTHER -> {"hasOwnProperty", "isPrototypeOf"}

\* lines 113-138: the names of the own properties of the object and of its
\* prototypes, each once, sorted (a set); Object.getOwnPropertyNames throws
\* a TypeError for undefined and null
getAllPropertyNames(object) ==
    IF object.type \in {"undefined", "null"}
    THEN Throws(ErrorObject("TypeError", <<"Cannot convert undefined or null to object">>))
    ELSE Returns(object.own \cup PrototypeNames(object.type))

\* str.split("\n")
RECURSIVE SplitNL(_)
SplitNL(str) ==
    IF \A i \in 1..Len(str) : str[i] # NL THEN <<str>>
    ELSE LET k == CHOOSE i \in 1..Len(str) :
                      str[i] = NL /\ \A j \in 1..(i - 1) : str[j] # NL
         IN  <<SubSeq(str, 1, k - 1)>> \o SplitNL(SubSeq(str, k + 1, Len(str)))

\* lines 88-96: the replace calls of toHtml on one character
EscapeHtml(ch) ==
    CASE ch = "&" -> "&amp;"
      [] ch = "<" -> "&lt;"
      [] ch = ">" -> "&gt;"
      [] ch = "\"" -> "&quot;"
      [] ch = "'" -> "&#39;"
      [] OTHER -> ch

\* lines 80-97
formatResult(result) ==
    Returns([mime |-> [plain |-> result.text,
                       html |-> <<"<pre>">> \o [i \in 1..Len(result.text) |->
                                                   EscapeHtml(result.text[i])]
                                          \o <<"</pre>">>]])

\* lines 99-107: error.name, error.message, error.stack.split("\n"); the
\* read of a property of undefined or null, and the call of split of an
\* undefined stack, throw a TypeError
formatError(error) ==
    IF error.type \in {"undefined", "null"}
    THEN Throws(ErrorObject("TypeError", <<"Cannot read properties of ", error.type>>))
    ELSE IF "stack" \notin error.has
         THEN Throws(ErrorObject("TypeError", <<"Cannot read properties of undefined">>))
         ELSE Returns([error |-> [ename |-> error.name,
                                  evalue |-> error.message,
                                  traceback |-> SplitNL(error.stack)]])

\* the handler ran: the messages it sent, and whether it threw
Handled(messages, threw) == [sent |-> messages, threw |-> threw]

\* lines 53-55 and 59-61: catch (e) { response = formatError(e); } and the
\* send of line 73; what formatError throws is caught by nothing
Caught(e) ==
    LET response == formatError(e)
    IN  IF response.threw THEN Handled(<<>>, TRUE) ELSE Handled(<<response.v>>, FALSE)

\* lines 43-74
onMessage(request) ==
    LET action == request[1]
        code == request[2]
        r == run(code)
    IN  IF action = "getAllPropertyNames"
        THEN IF r.threw THEN Caught(r.v)
             ELSE LET names == getAllPropertyNames(r.v)
                  IN  IF names.threw THEN Caught(names.v)
                      ELSE Handled(<<[names |-> names.v]>>, FALSE)
        ELSE IF action = "run"
             THEN IF r.threw THEN Caught(r.v)
                  ELSE Handled(<<formatResult(r.v).v>>, FALSE)
             ELSE Handled(<<>>, FALSE)

\* ----------------------------------------------------- kernel.js: Parser
\* lines 78-99: new Configuration(); status: where the kernel process is
NewConfiguration ==
    [onDebug |-> FALSE, offESInterop |-> FALSE, workingDir |-> <<"cwd">>,
     hideUndefined |-> FALSE, hideExecutionResult |-> FALSE,
     protocolVer |-> <<"5.1">>, startupScript |-> <<null>>,
     isConnSet |-> FALSE, conn |-> <<>>, status |-> "new"]

\* lines 321-328: the setter connectionWith; parses: a file of that name
\* exists and holds JSON
connectionWith(cb, filepath, parses) ==
    IF cb.isConnSet THEN [cb EXCEPT !.status = "exit 1"]
    ELSE IF parses THEN [cb EXCEPT !.isConnSet = TRUE, !.conn = filepath]
         ELSE [cb EXCEPT !.isConnSet = TRUE, !.status = "uncaught exception"]

\* lines 436-459: the body of the loop of Parser.parse for argument arg;
\* stray: an argument that is not the connection file names a JSON file
ParseArgument(cb, arg, stray) ==
    LET name == arg[1]
        values == Tail(arg)
    IN  CASE name = "debug" -> [cb EXCEPT !.onDebug = TRUE]
          [] name = "hide-undefined" -> [cb EXCEPT !.hideUndefined = TRUE]
          [] name = "hide-execution-result" -> [cb EXCEPT !.hideExecutionResult = TRUE]
          [] name = "protocol" -> [cb EXCEPT !.protocolVer = values]
          [] name = "working-dir" -> [cb EXCEPT !.workingDir = values]
          [] name = "startup-script" -> [cb EXCEPT !.startupScript = values]
          [] OTHER -> connectionWith(cb, arg, arg = ConnectionFile \/ stray)

RECURSIVE ParseFrom(_, _, _, _)
ParseFrom(cb, argv, i, stray) ==
    IF cb.status # "new" THEN cb
    ELSE IF i > Len(argv)
         THEN [cb EXCEPT !.status = IF cb.isConnSet THEN "configured" ELSE "exit 1"]
         ELSE ParseFrom(ParseArgument(cb, argv[i], stray), argv, i + 1, stray)

\* lines 431-461: Parser.parse and the getter config (304-311), for the
\* process arguments processArgv
parse(processArgv, stray) ==
    ParseFrom(NewConfiguration, SubSeq(processArgv, 3, Len(processArgv)), 1, stray)

\* -------------------------------------------------------------------- state
VARIABLES
    snapshot,           \* the lines of the synthetic file cell.ts
    workFileVersion,    \* what getScriptVersion answers
    prevLines,          \* the committed line count
    prevJSCode,         \* the last successful emission
    copiedOpts,         \* what getCompilationSettings answers
    options,            \* the base options
    tsConfigWarnings,   \* the queued warnings
    offESInterop,       \* --off-es-module-interop
    pc,                 \* "Idle", or "Staged": inside transpiler, before the try
    rawCode,            \* the argument of the last call
    code,               \* the lines the running call staged
    overrideOptions,    \* the overrides of the running call
    tsconfig,           \* the project configuration file, as it is on disk
    outcome,            \* how the last call ended
    value,              \* what it returned, or the message it threw
    codeslice,          \* the slice it computed, without warning statements
    submitted,          \* lines submitted so far
    langServCalls,      \* calls of execTranspile so far
    permanent,          \* per option, the value a permanent directive gave it
    pre,                \* the closure state when the last call started
    skipped,            \* the last call replayed from before a rejected call
    delivered,          \* the slices returned so far, while every call was accepted
    argv,               \* process.argv.slice(2) of the launcher
    launcher,           \* where the launcher is: what it waits for, or how it ended
    Main,               \* the statics of Main
    Arguments,          \* Arguments._kernel and Arguments._frontend
    kernelArgv,         \* the argv the frontend starts the kernel with
    spawned,            \* the frontend was spawned
    configBuilder,      \* the Configuration of the kernel process
    copy,               \* the running call of copyAsync: its locals and streams
    tmpFiles,           \* what the launcher left in the temporary directory
    requests,           \* the requests the sandbox server was sent
    sent,               \* for each request, the messages the server sent for it
    serverUp            \* the sandbox server process runs

serverVars == <<requests, sent, serverUp>>

launchVars ==
    <<argv, launcher, Main, Arguments, kernelArgv, spawned, configBuilder, copy, tmpFiles>>

vars == <<snapshot, workFileVersion, prevLines, prevJSCode, copiedOpts, options,
          tsConfigWarnings, offESInterop, pc, rawCode, code, overrideOptions, tsconfig,
          outcome, value, codeslice, submitted, langServCalls, permanent, pre, skipped,
          delivered, argv, launcher, Main, Arguments, kernelArgv, spawned, configBuilder,
          copy, tmpFiles, requests, sent, serverUp>>

Sess == [snapshot |-> snapshot, workFileVersion |-> workFileVersion,
         prevLines |-> prevLines, prevJSCode |-> prevJSCode,
         copiedOpts |-> copiedOpts, options |-> options,
         tsConfigWarnings |-> tsConfigWarnings, langServCalls |-> langServCalls]

SetSess(s) ==
    /\ snapshot' = s.snapshot
    /\ workFileVersion' = s.workFileVersion
    /\ prevLines' = s.prevLines
    /\ prevJSCode' = s.prevJSCode
    /\ copiedOpts' = s.copiedOpts
    /\ options' = s.options
    /\ tsConfigWarnings' = s.tsConfigWarnings
    /\ langServCalls' = s.langServCalls

\* lines 134-139: the default options
DefaultOptions(off) ==
    [n \in OptionNames |->
        CASE n = "esModuleInterop" -> Not(IF off THEN jsTrue ELSE jsFalse)
          [] n = "module" -> CommonJS
          [] n = "moduleResolution" -> NodeJs
          [] OTHER -> undefined]

\* line 140: ts.findConfigFile finds no file
NoConfigFile ==
    [found |-> FALSE, readable |-> FALSE, errors |-> FALSE,
     options |-> [n \in OptionNames |-> undefined], mtime |-> 0]

\* what a configuration file can hold: {"compilerOptions": {"strict": true}},
\* {"compilerOptions": {"module": "es2015", "esModuleInterop": true}},
\* nothing that can be read, or text that is not JSON.  A file that cannot be
\* read goes to onUnRecoverableConfigFileDiagnostic and gives no result; text
\* that is not JSON gives a result whose errors say so (parsedConfig.errors)
\* and whose options are what could be made out of the text, here nothing.
ConfigContents ==
    {[readable |-> TRUE, errors |-> FALSE,
      options |-> [n \in OptionNames |-> IF n = "strict" THEN jsTrue ELSE undefined]],
     [readable |-> TRUE, errors |-> FALSE,
      options |-> [n \in OptionNames |->
                      CASE n = "module" -> ES2015
                        [] n = "esModuleInterop" -> jsTrue
                        [] OTHER -> undefined]],
     [readable |-> TRUE, errors |-> FALSE,
      options |-> [n \in OptionNames |-> IF n = "noEmit" THEN jsTrue ELSE undefined]],
     [readable |-> FALSE, errors |-> FALSE, options |-> [n \in OptionNames |-> undefined]],
     [readable |-> TRUE, errors |-> TRUE, options |-> [n \in OptionNames |-> undefined]]}

\* the file, found, with content c and modification time t
ConfigFile(c, t) ==
    [found |-> TRUE, readable |-> c.readable, errors |-> c.errors, options |-> c.options,
     mtime |-> t]

ParseErrorWarning == "Error parsing configuration file!"

\* lines 140-161: the options of the project configuration, when it is found
\* and ts.getParsedCommandLineOfConfigFile returns a result
ConfigOptions(off, file) ==
    IF file.found /\ file.readable THEN file.options ELSE DefaultOptions(off)

\* lines 141-145 and 153-156: the warnings of the construction
ConfigWarnings(file) ==
    IF ~file.found THEN <<NoConfigWarning>>
    ELSE IF ~file.readable THEN <<ParseErrorWarning>>
         ELSE <<>>

NoOverride == [kernel |-> FALSE, compiler |-> <<>>]

None == "none"

NoReplay == [valid |-> FALSE, outcome |-> "none", codeslice |-> <<>>]

AllAccepted == "all accepted"

\* lines 134-167: the closure state the getter builds
Constructed ==
    /\ options = ConfigOptions(offESInterop, tsconfig)
    /\ copiedOpts = options
    /\ tsConfigWarnings = ConfigWarnings(tsconfig)
    /\ snapshot = <<>>
    /\ workFileVersion = 0
    /\ prevLines = 0
    /\ prevJSCode = <<>>
    /\ pc = "Idle"
    /\ rawCode = <<>>
    /\ code = <<>>
    /\ overrideOptions = NoOverride
    /\ outcome = "none"
    /\ value = <<>>
    /\ codeslice = <<>>
    /\ submitted = 0
    /\ langServCalls = 0
    /\ permanent = [n \in OptionNames |-> None]
    /\ pre = Sess
    /\ skipped = NoReplay
    /\ delivered = [history |-> AllAccepted, text |-> <<>>]

\* the launcher script loaded with the command line extraArgs, and no kernel
\* process yet
Started(extraArgs) ==
    /\ argv = extraArgs
    /\ launcher = "prepare"
    /\ Main = Loaded.Main
    /\ Arguments = Loaded.Arguments
    /\ kernelArgv = <<>>
    /\ spawned = FALSE
    /\ configBuilder = [NewConfiguration EXCEPT !.status = "not started"]
    /\ copy = NotCopying
    /\ tmpFiles = {}
    /\ requests = <<>>
    /\ sent = <<>>
    /\ serverUp = TRUE

\* a kernel started where there is no project configuration
Init ==
    /\ offESInterop \in BOOLEAN
    /\ tsconfig = NoConfigFile
    /\ Started(<<>>)
    /\ Constructed

\* a kernel started where there is a project configuration, or none
InitConfig ==
    /\ offESInterop \in BOOLEAN
    /\ tsconfig \in {NoConfigFile} \cup {ConfigFile(c, 0) : c \in ConfigContents}
    /\ Started(<<>>)
    /\ Constructed

\* the replay of rawCode from the state before the last call, if that call
\* was rejected
Replay(cell) ==
    IF outcome \in {"rejected", "malformed"}
    THEN LET r == Transpiler(pre, offESInterop, cell)
         IN  [valid |-> TRUE, outcome |-> r.outcome, codeslice |-> r.codeslice]
    ELSE NoReplay

Deliver(d, how, slice) ==
    IF d.history = AllAccepted /\ how = "accepted"
    THEN [history |-> AllAccepted, text |-> d.text \o slice]
    ELSE [history |-> "some rejected", text |-> <<>>]

\* the option names a cell carries a directive for, transient or permanent
DirectiveKeys(cell, bang) ==
    LET props == ParseCell(cell).overrideOptions.compiler
    IN  {KeyName(props[i].key) : i \in {j \in 1..Len(props) : props[j].key[2] = bang}}

\* the value of the permanent directive of `cell` for option n
PermanentValue(cell, n) ==
    LET props == ParseCell(cell).overrideOptions.compiler
        i == CHOOSE j \in 1..Len(props) : props[j].key = <<n, "!">>
    IN  JSONparse(props[i].val)

\* what is known of the permanent values once a call for `cell` ended `how`:
\* a permanent directive of an accepted cell sets the value; any directive
\* of a cell that was not accepted leaves it open
Remember(perm, cell, how) ==
    [n \in OptionNames |->
        IF how = "accepted"
        THEN IF n \in DirectiveKeys(cell, "!") THEN PermanentValue(cell, n) ELSE perm[n]
        ELSE IF n \in DirectiveKeys(cell, "!") \cup DirectiveKeys(cell, "") THEN None
             ELSE perm[n]]

\* transpiler(rawCode) up to the try block (lines 230-261)
Submit(cell) ==
    /\ pc = "Idle"
    /\ submitted + Len(cell) <= MaxInputLines
    /\ LET head == TranspilerHead(Sess, offESInterop, cell)
       IN  /\ SetSess(head.s)
           /\ IF head.thrown
              THEN /\ pc' = "Idle"
                   /\ code' = <<>>
                   /\ overrideOptions' = NoOverride
                   /\ outcome' = "malformed"
                   /\ value' = <<>>
                   /\ codeslice' = <<>>
                   /\ delivered' = Deliver(delivered, "malformed", <<>>)
                   /\ permanent' = Remember(permanent, cell, "malformed")
              ELSE /\ pc' = "Staged"
                   /\ code' = head.code
                   /\ overrideOptions' = head.overrideOptions
                   /\ UNCHANGED <<outcome, value, codeslice, delivered, permanent>>
    /\ rawCode' = cell
    /\ submitted' = submitted + Len(cell)
    /\ pre' = Sess
    /\ skipped' = Replay(cell)
    /\ UNCHANGED <<offESInterop, tsconfig>>
    /\ UNCHANGED <<launchVars, serverVars>>

\* the try block of transpiler and its catch (lines 262-290)
Compile ==
    /\ pc = "Staged"
    /\ LET r == TranspilerTry(Sess, overrideOptions)
       IN  /\ SetSess(r.s)
           /\ outcome' = r.outcome
           /\ value' = r.value
           /\ codeslice' = r.codeslice
           /\ delivered' = Deliver(delivered, r.outcome, r.codeslice)
           /\ permanent' = Remember(permanent, rawCode, r.outcome)
    /\ pc' = "Idle"
    /\ code' = <<>>
    /\ overrideOptions' = NoOverride
    /\ UNCHANGED <<offESInterop, tsconfig, rawCode, submitted, pre, skipped>>
    /\ UNCHANGED <<launchVars, serverVars>>

\* the project configuration file is rewritten between two calls.  Nothing
\* of lines 230-291 reads the file, so a write during a call is a write
\* after it.
WriteConfig(c) ==
    /\ pc = "Idle"
    /\ tsconfig.found
    /\ tsconfig.mtime < MaxConfigWrites
    /\ ConfigFile(c, tsconfig.mtime) # tsconfig
    /\ tsconfig' = ConfigFile(c, tsconfig.mtime + 1)
    /\ UNCHANGED <<snapshot, workFileVersion, prevLines, prevJSCode, copiedOpts, options,
                   tsConfigWarnings, offESInterop, pc, rawCode, code, overrideOptions,
                   outcome, value, codeslice, submitted, langServCalls, permanent, pre,
                   skipped, delivered>>
    /\ UNCHANGED <<launchVars, serverVars>>

Next ==
    \/ \E cell \in RawCells[MaxInputLines - submitted] : Submit(cell)
    \/ Compile

Spec == Init /\ [][Next]_vars

\* the head of transpiler on the first cell of a session, over directives of
\* every kind
NextParse == \E cell \in PragmaCells : submitted = 0 /\ Submit(cell)

SpecParse == Init /\ [][NextParse]_vars

\* a session of code cells next to a project configuration that is rewritten
NextConfig ==
    \/ \E cell \in CodeCells : submitted + Len(cell) <= MaxConfigLines /\ Submit(cell)
    \/ Compile
    \/ \E c \in ConfigContents : WriteConfig(c)

SpecConfig == InitConfig /\ [][NextConfig]_vars

\* ------------------------------------------------------ launcher actions
sessionVars ==
    <<snapshot, workFileVersion, prevLines, prevJSCode, copiedOpts, options,
      tsConfigWarnings, offESInterop, pc, rawCode, code, overrideOptions, tsconfig,
      outcome, value, codeslice, submitted, langServCalls, permanent, pre, skipped,
      delivered>>

Launch == [Main |-> Main, Arguments |-> Arguments, exited |-> null]

\* the statics after a step, and where the launcher is then
SetLaunch(st, next) ==
    /\ Main' = st.Main
    /\ Arguments' = st.Arguments
    /\ launcher' = IF st.exited = "0" THEN "exit 0"
                   ELSE IF st.exited = "1" THEN "exit 1"
                        ELSE next

\* lines 572-578: the callback of installKernelAsync
Installed(st) ==
    /\ SetLaunch(st, "done")
    /\ spawned' = SpawnsFrontend(st.Main.installLoc)

\* a callback of the version query that opens the dashboard before the
\* kernel is registered
VersionKnownSpawnsFirst(st, tmpdir) ==
    LET st1 == setProtocol(st)
    IN  IF st1.exited # null
        THEN SetLaunch(st1, launcher) /\ UNCHANGED <<kernelArgv, spawned, copy, tmpFiles>>
        ELSE IF majorVersionOf(st1.Main.frontendVersion) < 3
             THEN Installed(st1) /\ kernelArgv' = st1.Arguments.kernel
                               /\ UNCHANGED <<copy, tmpFiles>>
             ELSE IF tmpdir
                  THEN /\ SetLaunch(st1, "copy")
                       /\ copy' = copyAsync(Logos, TRUE)
                       /\ tmpFiles' = SpecFiles \cup Created(copy')
                       /\ spawned' = SpawnsFrontend(st1.Main.installLoc)
                       /\ UNCHANGED kernelArgv
                  ELSE /\ SetLaunch(Exit(st1, "1"), launcher)
                       /\ UNCHANGED <<kernelArgv, spawned, copy, tmpFiles>>

\* lines 567-571 with 470-533: the callback of the version query runs
\* setProtocol and installKernelAsync up to the return of copyAsync;
\* tmpdir: makeTmpdir made a directory
VersionKnown(st, tmpdir) ==
    LET st1 == setProtocol(st)
    IN  IF st1.exited # null
        THEN SetLaunch(st1, launcher) /\ UNCHANGED <<kernelArgv, spawned, copy, tmpFiles>>
        ELSE IF majorVersionOf(st1.Main.frontendVersion) < 3
             THEN Installed(st1) /\ kernelArgv' = st1.Arguments.kernel
                               /\ UNCHANGED <<copy, tmpFiles>>
             ELSE IF tmpdir
                  THEN /\ SetLaunch(st1, "copy")
                       /\ copy' = copyAsync(Logos, TRUE)
                       /\ tmpFiles' = SpecFiles \cup Created(copy')
                       /\ UNCHANGED <<kernelArgv, spawned>>
                  ELSE /\ SetLaunch(Exit(st1, "1"), launcher)
                       /\ UNCHANGED <<kernelArgv, spawned, copy, tmpFiles>>

\* lines 565-566: Main.prepare and the call of setJupyterInfoAsync
Prepare ==
    /\ launcher = "prepare"
    /\ ~copy.started
    /\ SetLaunch(prepare(Launch, argv), "jupyter --version")
    /\ UNCHANGED <<argv, kernelArgv, spawned, configBuilder, copy, tmpFiles>>
    /\ UNCHANGED <<sessionVars, serverVars>>

\* a callback that asks ipython as well when jupyter answered
JupyterVersionAsksBoth(stdout, tmpdir) ==
    /\ launcher = "jupyter --version"
    /\ IF stdout = ExecError
       THEN Main' = [Main EXCEPT !.frontIdentificationError = ExecError]
       ELSE Main' = [Main EXCEPT !.frontendVersion = stdout]
    /\ launcher' = "ipython --version"
    /\ UNCHANGED <<Arguments, kernelArgv, spawned, copy, tmpFiles>>
    /\ UNCHANGED <<argv, configBuilder>>
    /\ UNCHANGED <<sessionVars, serverVars>>

\* lines 363-377: the callback of exec("jupyter --version")
JupyterVersion(stdout, tmpdir) ==
    /\ launcher = "jupyter --version"
    /\ IF stdout = ExecError
       THEN /\ Main' = [Main EXCEPT !.frontIdentificationError = ExecError]
            /\ launcher' = "ipython --version"
            /\ UNCHANGED <<Arguments, kernelArgv, spawned, copy, tmpFiles>>
       ELSE VersionKnown([callFrontendWith(Launch, "jupyter")
                             EXCEPT !.Main.frontendVersion = stdout], tmpdir)
    /\ UNCHANGED <<argv, configBuilder>>
    /\ UNCHANGED <<sessionVars, serverVars>>

\* lines 384-405: the callback of exec("ipython --version")
IPythonVersion(stdout, tmpdir) ==
    /\ launcher = "ipython --version"
    /\ IF stdout = ExecError
       THEN /\ SetLaunch(Exit(Launch, "1"), launcher)
            /\ UNCHANGED <<kernelArgv, spawned, copy, tmpFiles>>
       ELSE VersionKnown([callFrontendWith(Launch, "ipython")
                             EXCEPT !.Main.frontendVersion = stdout], tmpdir)
    /\ UNCHANGED <<argv, configBuilder>>
    /\ UNCHANGED <<sessionVars, serverVars>>

\* a call of copyAsync on its own, with any images, with or without a
\* callback
CopyAsync(images, callback) ==
    /\ launcher = "prepare"
    /\ ~copy.started
    /\ copy' = copyAsync(images, callback)
    /\ tmpFiles' = Created(copy')
    /\ UNCHANGED <<argv, launcher, Main, Arguments, kernelArgv, spawned, configBuilder>>
    /\ UNCHANGED <<sessionVars, serverVars>>

\* lines 454-457: the "end" event of the read stream of image i.  In
\* installKernelAsync the callback starts the install command (501-515).
ReadEnd(i) ==
    /\ launcher \in {"prepare", "copy"}
    /\ copy.started /\ ~copy.thrown
    /\ i \in 1..Len(copy.images)
    /\ copy.streams[i].read = "open"
    /\ copy' = OnEnd(copy, i)
    /\ tmpFiles' = tmpFiles \cup Created(copy')
    /\ launcher' = IF launcher = "copy" /\ copy'.called > copy.called
                   THEN "kernelspec install"
                   ELSE launcher
    /\ UNCHANGED <<argv, Main, Arguments, kernelArgv, spawned, configBuilder>>
    /\ UNCHANGED <<sessionVars, serverVars>>

\* the "finish" event of the write stream of image i
WriteFinish(i) ==
    /\ launcher \in {"prepare", "copy", "kernelspec install"}
    /\ copy.started /\ ~copy.thrown
    /\ i \in 1..Len(copy.images)
    /\ copy.streams[i].write = "ending"
    /\ copy' = OnFinish(copy, i)
    /\ UNCHANGED <<argv, launcher, Main, Arguments, kernelArgv, spawned, configBuilder,
                   tmpFiles>>
    /\ UNCHANGED <<sessionVars, serverVars>>

\* lines 515-533: the callback of exec("<frontend> kernelspec install ...");
\* the installed kernel.json holds the kernel arguments (line 493)
KernelspecInstall(error) ==
    /\ launcher = "kernelspec install"
    /\ tmpFiles' = RemoveSpec(tmpFiles, copy.passed)
    /\ IF error
       THEN SetLaunch(Exit(Launch, "1"), launcher) /\ UNCHANGED <<kernelArgv, spawned>>
       ELSE Installed(Launch) /\ kernelArgv' = Arguments.kernel
    /\ UNCHANGED <<argv, configBuilder, copy>>
    /\ UNCHANGED <<sessionVars, serverVars>>

\* the frontend starts the kernel process with the registered arguments, or
\* with those of --KernelManager.kernel_cmd; kernel.js 472: Parser.parse()
KernelStart(stray) ==
    /\ launcher = "done"
    /\ configBuilder.status = "not started"
    /\ majorVersionOf(Main.frontendVersion) >= 3 \/ spawned
    /\ configBuilder' = parse(kernelArgv, stray)
    /\ UNCHANGED <<argv, launcher, Main, Arguments, kernelArgv, spawned, copy, tmpFiles>>
    /\ UNCHANGED <<sessionVars, serverVars>>

NextLaunch ==
    \/ Prepare
    \/ \E stdout \in FrontendVersions \cup {ExecError}, tmpdir \in BOOLEAN :
          JupyterVersion(stdout, tmpdir)
    \/ \E stdout \in FrontendVersions \cup {ExecError}, tmpdir \in BOOLEAN :
          IPythonVersion(stdout, tmpdir)
    \/ \E i \in 1..Len(Logos) : ReadEnd(i)
    \/ \E i \in 1..Len(Logos) : WriteFinish(i)
    \/ \E error \in BOOLEAN : KernelspecInstall(error)
    \/ \E stray \in BOOLEAN : KernelStart(stray)

\* the launcher started with up to MaxArgs arguments
InitLaunch ==
    /\ offESInterop = FALSE
    /\ tsconfig = NoConfigFile
    /\ \E extraArgs \in SeqsUpTo(LauncherArgs, MaxArgs) : Started(extraArgs)
    /\ Constructed

SpecLaunch == InitLaunch /\ [][NextLaunch]_vars

\* copyAsync called on its own
NextCopy ==
    \/ \E images \in SeqsUpTo(ImageNames, MaxImages), callback \in BOOLEAN :
          CopyAsync(images, callback)
    \/ \E i \in 1..MaxImages : ReadEnd(i)
    \/ \E i \in 1..MaxImages : WriteFinish(i)

SpecCopy == Init /\ [][NextCopy]_vars

\* ---------------------------------------------------------- sm_server.js
SandboxRequests == {"run", "getAllPropertyNames", "inspect"} \X SandboxCodes

\* line 41: the "message" event of the server process; an exception that
\* leaves the handler ends the process
OnMessage(request) ==
    /\ serverUp
    /\ Len(requests) < MaxRequests
    /\ requests' = Append(requests, request)
    /\ sent' = Append(sent, onMessage(request).sent)
    /\ serverUp' = ~onMessage(request).threw
    /\ UNCHANGED <<sessionVars, launchVars>>

NextServer == \E request \in SandboxRequests : OnMessage(request)

SpecServer == Init /\ [][NextServer]_vars

\* ------------------------------------------------------------------- claims
Returned == pc = "Idle" /\ outcome # "none"

\* C1: a call that fails at compile time leaves the buffer, the committed
\* line count and the last successful emission as they were before the call.
C1_IsolationOfFailure ==
    (Returned /\ outcome = "rejected") =>
        /\ snapshot = pre.snapshot
        /\ prevLines = pre.prevLines
        /\ prevJSCode = pre.prevJSCode

\* a cell with code of its own is rejected after another cell was committed
C1_Witness ==
    /\ Returned /\ outcome = "rejected"
    /\ prevLines > 0
    /\ ParseCell(rawCode).code # <<>>
    /\ value[1].head = "Line"

\* C2: the committed line count never exceeds the length of the buffer, and
\* the two are equal whenever no call is running, however the last call ended.
C2_CommittedWithinBuffer ==
    /\ prevLines <= Len(snapshot)
    /\ pc = "Idle" => prevLines = Len(snapshot)

\* lines are staged on top of committed ones, right after a rejected call
C2_Witness ==
    /\ pc = "Staged"
    /\ 0 < prevLines /\ prevLines < Len(snapshot)
    /\ outcome \in {"rejected", "malformed"}

\* C3: after a cell that carries only a transient directive for an option,
\* accepted or rejected, the option has for the next cell the value it had
\* before the cell.
C3_TransientScoping ==
    Returned =>
        \A n \in DirectiveKeys(rawCode, "") \ DirectiveKeys(rawCode, "!") :
            copiedOpts[n] = pre.copiedOpts[n]

\* C4: the value a permanent directive of an accepted cell gave an option is
\* the effective value in every later cell that carries no directive for the
\* option, and is the value the option reverts to after a later accepted cell
\* with a transient directive for it.
C4_PermanentOverridePersists ==
    \A n \in OptionNames :
        (/\ permanent[n] # None
         /\ \/ pc = "Idle"
            \/ n \notin DirectiveKeys(rawCode, "") \cup DirectiveKeys(rawCode, "!"))
        => copiedOpts[n] = permanent[n] /\ options[n] = permanent[n]

\* a cell with a transient directive is accepted after a permanent one
C4_Witness ==
    /\ Returned /\ outcome = "accepted"
    /\ "strict" \in DirectiveKeys(rawCode, "") \ DirectiveKeys(rawCode, "!")
    /\ pre.options["strict"] = jsTrue
    /\ permanent["strict"] = jsTrue
    /\ DefaultOptions(offESInterop)["strict"] # jsTrue

\* C5: the value a cell is compiled with, for an option the cell has a
\* transient directive for, is the value of that transient directive.
C5_TransientWins ==
    pc = "Staged" =>
        \A i \in 1..Len(overrideOptions.compiler) :
            LET p == overrideOptions.compiler[i]
            IN  ~IsPermanent(p.key) => copiedOpts[KeyName(p.key)] = JSONparse(p.val)

\* C6 as stated: the version advances by one on a commit and is unchanged by
\* a call whose compile fails.
C6_VersionOnlyOnCommit ==
    Returned =>
        /\ outcome = "accepted" => workFileVersion = pre.workFileVersion + 1
        /\ outcome = "rejected" => workFileVersion = pre.workFileVersion

\* C6, amended: the version advances by exactly one on every call that
\* reaches the compile, committed or rejected, and is unchanged by a call
\* rejected for a malformed directive.
C6_VersionPerCompile ==
    Returned =>
        /\ outcome \in {"accepted", "rejected"} =>
                workFileVersion = pre.workFileVersion + 1
        /\ outcome = "malformed" => workFileVersion = pre.workFileVersion

\* a rejected call that follows a committed one
C6_Witness ==
    /\ Returned /\ outcome = "rejected"
    /\ pre.workFileVersion > 0
    /\ pre.prevLines > 0

\* C7: a cell submitted after a rejected cell ends as it would have ended
\* had the rejected cell never been submitted: same outcome, same slice.
C7_RollbackIsSkip ==
    (Returned /\ skipped.valid) =>
        outcome = skipped.outcome /\ codeslice = skipped.codeslice

C9_Accumulation ==
    (Returned /\ delivered.history = AllAccepted) => delivered.text = prevJSCode

\* how often token t occurs in text
RECURSIVE Count(_, _)
Count(text, t) ==
    IF text = <<>> THEN 0
    ELSE (IF Head(text) = t THEN 1 ELSE 0) + Count(Tail(text), t)

IsPrefix(a, b) == Len(a) <= Len(b) /\ SubSeq(b, 1, Len(a)) = a

\* C9, amended: while every cell is accepted, the slices returned so far hold
\* every line of the full emission of the last compile at least as often as
\* the emission has it; and when that emission is the previous one with text
\* appended, the slice is exactly the appended text.
C9_NothingWithheld ==
    (Returned /\ delivered.history = AllAccepted) =>
        /\ \A i \in 1..Len(prevJSCode) :
              prevJSCode[i] # NL =>
                  Count(delivered.text, prevJSCode[i]) >= Count(prevJSCode, prevJSCode[i])
        /\ IsPrefix(pre.prevJSCode, prevJSCode) => pre.prevJSCode \o codeslice = prevJSCode

\* three cells were accepted, and the compiler placed output of the last
\* before output that was already delivered
C9_Witness ==
    /\ Returned /\ delivered.history = AllAccepted
    /\ langServCalls = 3
    /\ ~IsPrefix(pre.prevJSCode, prevJSCode)
    /\ delivered.text # prevJSCode

\* the output of a cell's own lines, under the options the cell was
\* compiled with: the emission of each line, and the module prologue when
\* the cell has an import
OwnOutput(s, off, cell) ==
    LET head == TranspilerHead(s, off, cell)
    IN  {NL} \cup UNION {{EmitLine(head.code[i], head.s.copiedOpts)[1]} :
                            i \in 1..Len(head.code)}
             \cup {Prologue(head.code)[i] : i \in 1..Len(Prologue(head.code))}

\* C10: the slice of an accepted cell holds only output of the cell's own
\* lines.
C10_NoReEmission ==
    (Returned /\ outcome = "accepted") =>
        \A i \in 1..Len(codeslice) : codeslice[i] \in OwnOutput(pre, offESInterop, rawCode)

\* the step that ends a call whose cell was compiled
CompileEnds == pc = "Staged" /\ pc' = "Idle"

\* C11 as stated: whenever a call succeeds while the warning queue is not
\* empty, the first call included, the returned slice begins with one display
\* statement per queued warning, in queue order, and the queue is empty
\* afterwards.
C11_WarningsWithEverySuccess ==
    [][(CompileEnds /\ outcome' = "accepted" /\ tsConfigWarnings # <<>>) =>
            /\ IsPrefix(WarningStatements(tsConfigWarnings), value')
            /\ tsConfigWarnings' = <<>>]_vars

\* C11, amended: a call that succeeds with the document version above 1
\* returns a slice that begins with one display statement per queued warning,
\* in queue order, and empties the queue; a call that succeeds at version 1
\* returns its slice without warning statements and leaves the queue as it is.
C11_WarningsAfterFirstCompile ==
    [][(CompileEnds /\ outcome' = "accepted") =>
            IF workFileVersion > 1
            THEN /\ IsPrefix(WarningStatements(tsConfigWarnings), value')
                 /\ Len(value') = Len(WarningStatements(tsConfigWarnings)) + Len(codeslice')
                 /\ tsConfigWarnings' = <<>>
            ELSE /\ value' = codeslice'
                 /\ tsConfigWarnings' = tsConfigWarnings]_vars

\* the second compile of a session succeeds and delivers two warnings, the
\* one of the construction first
C11_Witness ==
    /\ Returned /\ outcome = "accepted"
    /\ workFileVersion = 2
    /\ IsPrefix(WarningStatements(<<NoConfigWarning, InteropWarning>>), value)
    /\ tsConfigWarnings = <<>>

\* C12: a warning is delivered once for each time an accepted cell gives rise
\* to it, and rejected cells add nothing: the slice of a call that succeeds
\* while no line has been committed, whatever cells were rejected before it,
\* holds each warning at most once.
C12_WarningsAppearOnce ==
    (Returned /\ outcome = "accepted" /\ pre.prevLines = 0) =>
        \A w \in {InteropWarning, NoConfigWarning} : Count(value, w) <= 1

\* the place in the raw cell of the j-th staged line; 0 for a line the
\* kernel staged of its own
RawIndex(cell, j) ==
    IF ~StartsWithPercent(cell[1]) THEN j
    ELSE LET kept == {i \in 1..Len(cell) : ~StartsWithPercent(cell[i])}
             own == IF ParseCell(cell).overrideOptions.kernel THEN 1 ELSE 0
         IN  IF j <= own THEN 0
             ELSE CHOOSE i \in kept : Cardinality({m \in kept : m <= i}) = j - own

\* C13: a diagnostic on the k-th line of the cell as the user submitted it is
\* rendered as "Line k", whatever the number of committed lines and of
\* directive lines the cell starts with.
C13_LineOfSubmittedText ==
    (Returned /\ outcome = "rejected") =>
        \A i \in 1..Len(value) :
            (value[i].head = "Line" /\ value[i].line >= 1) =>
                value[i].line = RawIndex(rawCode, value[i].line)

\* C14: every diagnostic that is not rendered as a conflict with a committed
\* line is rendered with a line from 1 to the number of staged lines.
C14_LineInsideCell ==
    (Returned /\ outcome = "rejected") =>
        \A i \in 1..Len(value) :
            value[i].head = "Line" =>
                1 <= value[i].line /\ value[i].line <= Len(ParseCell(rawCode).code)

\* C15: a diagnostic is rendered as a conflict with a committed line exactly
\* when its zero-based line is below the committed line count less one; each
\* diagnostic is reported, in the order of the service, none dropped.
C15_ConflictBelowCommitted ==
    [][CompileEnds =>
            LET diags == AllDiagnostics(snapshot, copiedOpts)
            IN  diags # <<>> =>
                    /\ outcome' = "rejected"
                    /\ Len(value') = Len(diags)
                    /\ \A i \in 1..Len(diags) :
                          /\ (value'[i].head = "Conflict with a committed line")
                                <=> (diags[i].line < prevLines - 1)
                          /\ value'[i].code = diags[i].code
                          /\ value'[i].theErrorLine = snapshot[diags[i].line + 1]]_vars

\* a rejected call reports a diagnostic on a committed line as a conflict, one
\* on the last committed line and one on a line of the cell as lines
C15_Witness ==
    /\ Returned /\ outcome = "rejected"
    /\ pre.prevLines = 2
    /\ \E i, j, k \in 1..Len(value) :
          /\ value[i].head = "Conflict with a committed line"
          /\ value[j].head = "Line" /\ value[j].line = 0
          /\ value[k].head = "Line" /\ value[k].line = 1

\* the number of directive lines the cell starts with
LeadingDirectives(cell) ==
    CHOOSE n \in 0..Len(cell) :
        /\ \A i \in 1..n : StartsWithPercent(cell[i])
        /\ n = Len(cell) \/ ~StartsWithPercent(cell[n + 1])

\* C16: the staged code is the raw cell without the directive lines it starts
\* with, and only those are parsed as directives; a "%" line after the first
\* line of code stays in the code and gives no override.
C16_LeadingRunOnly ==
    pc = "Staged" =>
        LET n == LeadingDirectives(rawCode)
        IN  /\ code = SubSeq(rawCode, n + 1, Len(rawCode))
            /\ overrideOptions = parseOptions(SubSeq(rawCode, 1, n))

\* the keyword of a directive line, lower-cased
LowerKey(line) == <<ToLowerCase(line[2]), line[3]>>

IsKernelKey(line) == LowerKey(line) \in {<<"async", "">>, <<"asynchronous", "">>}

IsFixedKey(line) == LowerKey(line) \in {<<"module", "">>, <<"jsx", "">>, <<"target", "">>}

\* the directive `line` of the staged cell has given an override: an entry
\* under its keyword with the value of the last directive of that keyword,
\* which is the value of the option unless a later entry names the option too
YieldsOverride(line) ==
    LET key == <<line[2], line[3]>>
        props == overrideOptions.compiler
        last == rawCode[CHOOSE i \in 1..Len(rawCode) :
                    /\ StartsWithPercent(rawCode[i]) /\ <<rawCode[i][2], rawCode[i][3]>> = key
                    /\ \A m \in (i + 1)..Len(rawCode) :
                          ~(StartsWithPercent(rawCode[m])
                            /\ <<rawCode[m][2], rawCode[m][3]>> = key)]
    IN  \E j \in 1..Len(props) :
            /\ props[j].key = key
            /\ props[j].val = last[4]
            /\ \A m \in 1..Len(props) : m # j => props[m].key # key
            /\ (\A m \in (j + 1)..Len(props) : KeyName(props[m].key) # KeyName(key))
                  => copiedOpts[KeyName(key)] = JSONparse(last[4])
            /\ (/\ IsPermanent(key)
                /\ \A m \in (j + 1)..Len(props) :
                      ~(IsPermanent(props[m].key) /\ KeyName(props[m].key) = KeyName(key)))
                  => options[KeyName(key)] = JSONparse(last[4])

\* C17 as stated: every directive whose key is not async or asynchronous
\* gives a compiler-option override named by the key, with the parsed value.
C17_EveryDirectiveOverrides ==
    (pc = "Staged" /\ StartsWithPercent(rawCode[1])) =>
        \A i \in 1..Len(rawCode) :
            (StartsWithPercent(rawCode[i]) /\ ~IsKernelKey(rawCode[i]))
                => YieldsOverride(rawCode[i])

\* C17, amended: every directive whose lower-cased keyword is none of async,
\* asynchronous, module, jsx and target gives a compiler-option override
\* named by the keyword, with the parsed value of the last directive of that
\* keyword; a directive of keyword module, jsx or target gives none.
C17_OverridesButFixedKeys ==
    (pc = "Staged" /\ StartsWithPercent(rawCode[1])) =>
        \A i \in 1..Len(rawCode) :
            StartsWithPercent(rawCode[i]) =>
                /\ (~IsKernelKey(rawCode[i]) /\ ~IsFixedKey(rawCode[i]))
                      => YieldsOverride(rawCode[i])
                /\ (IsKernelKey(rawCode[i]) \/ IsFixedKey(rawCode[i])) =>
                      \A j \in 1..Len(overrideOptions.compiler) :
                          overrideOptions.compiler[j].key # <<rawCode[i][2], rawCode[i][3]>>

\* a cell with "%module 5" and "%module! 5": the first is left out, the
\* second sets the option
C17_Witness ==
    /\ pc = "Staged"
    /\ rawCode[1] = <<"%", "module", "", "5">>
    /\ Len(rawCode) = 3
    /\ rawCode[2] = <<"%", "Target", "", "1">>
    /\ rawCode[3] = <<"%", "moduleResolution", "", "1">>
    /\ copiedOpts["module"] = CommonJS
    /\ copiedOpts["moduleResolution"] = Classic

\* C18: on every call the base options are those of the configuration file
\* as it is then, whenever the file can be read.
C18_ConfigReloaded ==
    (pc = "Staged" /\ tsconfig.readable) => options = tsconfig.options

\* C19: a warning is queued whenever a cell is compiled while the configured
\* module system is not CommonJS.
C19_ModuleWarning ==
    (pc = "Staged" /\ options["module"] \notin {CommonJS, undefined}) =>
        Len(tsConfigWarnings) > Len(pre.tsConfigWarnings)

\* the code of the staged cell has an import statement
HasImport == \E i \in 1..Len(code) : StartsWithImport(code[i])

\* C20 as stated: a cell with an import queues the interop warning exactly
\* when the interop option is not on in the options as they were before the
\* cell's own directives, and the warning is not switched off.
C20_InteropOnBaseOptions ==
    pc = "Staged" =>
        tsConfigWarnings =
            IF ~offESInterop /\ HasImport /\ ~Truthy(pre.options["esModuleInterop"])
            THEN Append(pre.tsConfigWarnings, InteropWarning)
            ELSE pre.tsConfigWarnings

\* C20, amended: a cell with an import queues the interop warning exactly
\* when the interop option is not on in the options the cell is compiled
\* with, its own directives layered, and the warning is not switched off.
C20_InteropOnEffectiveOptions ==
    pc = "Staged" =>
        tsConfigWarnings =
            IF ~offESInterop /\ HasImport /\ ~Truthy(copiedOpts["esModuleInterop"])
            THEN Append(pre.tsConfigWarnings, InteropWarning)
            ELSE pre.tsConfigWarnings

\* a cell with an import switches the interop option off for itself, the
\* option being on before, and the warning is queued
C20_Witness ==
    /\ pc = "Staged"
    /\ "esModuleInterop" \in DirectiveKeys(rawCode, "")
    /\ HasImport
    /\ Truthy(pre.options["esModuleInterop"])
    /\ tsConfigWarnings = Append(pre.tsConfigWarnings, InteropWarning)

\* the project configuration was missing, or could not be read or parsed,
\* when the kernel started
ConfigFailed == ~tsconfig.found \/ ~tsconfig.readable \/ tsconfig.errors

\* C21: a missing or unparsable project configuration is never fatal: the
\* base options are the default set, a warning is queued for the first
\* delivery, and the outcome of a call is what it is with an empty queue.
C21_ConfigNeverFatal ==
    (tsconfig.mtime = 0 /\ ConfigFailed /\ Returned) =>
        /\ options = DefaultOptions(offESInterop)
        /\ pre.workFileVersion = 0 => pre.tsConfigWarnings # <<>>
        /\ outcome = Transpiler([pre EXCEPT !.tsConfigWarnings = <<>>],
                                offESInterop, rawCode).outcome

\* C22 as stated: every call ends in one of two ways: it returns a slice, or
\* it raises one error whose message is the formatted diagnostics.
C22_TwoEndings ==
    Returned => outcome \in {"accepted", "rejected"}

\* the buffer the compile of the last call read
StagedBuffer == pre.snapshot \o ParseCell(rawCode).code

\* the options the compile of the last call read
StagedOptions == TranspilerHead(pre, offESInterop, rawCode).s.copiedOpts

\* C22, amended: every call ends in one of three ways: it returns a slice;
\* or it raises the error of the compile, whose message is the formatted
\* entries of all collected diagnostics, one for each, in collection order;
\* or it raises the error of JSON.parse for a directive value that does not
\* parse, and no diagnostic is collected.
C22_ThreeEndings ==
    Returned =>
        LET diags == AllDiagnostics(StagedBuffer, StagedOptions)
        IN  /\ outcome \in {"accepted", "rejected", "malformed"}
            /\ outcome = "rejected" =>
                  value = [i \in 1..Len(diags) |->
                              FormatDiagnostic(diags[i], StagedBuffer, pre.prevLines)]
            /\ outcome = "malformed" =>
                  /\ \E i \in 1..Len(rawCode) :
                        /\ StartsWithPercent(rawCode[1]) /\ StartsWithPercent(rawCode[i])
                        /\ ~IsKernelKey(rawCode[i]) /\ ~IsFixedKey(rawCode[i])
                        /\ JSONparse(rawCode[i][4]) = SyntaxError
                  /\ langServCalls = pre.langServCalls
            /\ outcome = "accepted" => diags = <<>>

\* a call is rejected with a syntactic and a semantic diagnostic, in that
\* order
C22_Witness ==
    /\ Returned /\ outcome = "rejected"
    /\ Len(value) = 2
    /\ value[1].code = "TS1005" /\ value[2].code = "TS7006"

\* C23: committed lines are never changed: the buffer before a call is a
\* prefix of the buffer after it, and during a call the committed lines are
\* the buffer of the last commit.
C23_AppendOnly ==
    /\ IsPrefix(pre.snapshot, snapshot)
    /\ pc = "Idle" => pre.prevLines = Len(pre.snapshot)
    /\ pc = "Staged" => SubSeq(snapshot, 1, prevLines) = pre.snapshot

\* a cell is staged on top of committed lines
C23_Witness ==
    /\ pc = "Staged"
    /\ prevLines = 2
    /\ Len(snapshot) = 4
    /\ snapshot[1] # snapshot[3]

\* C24: the compiles of a session read the synthetic file under the versions
\* 1, 2, 3, ... in turn, whether they commit or reject: no two compiles read
\* under the same version.
C24_FreshVersionPerCompile ==
    /\ pc = "Idle" => workFileVersion = langServCalls
    /\ pc = "Staged" => workFileVersion = langServCalls + 1

\* the third compile of a session follows one that was rejected
C24_Witness ==
    /\ pc = "Staged"
    /\ outcome = "rejected"
    /\ langServCalls = 2
    /\ prevLines > 0

\* the compile of the last call collected no diagnostic and emitted
CleanCompile ==
    /\ AllDiagnostics(StagedBuffer, StagedOptions) = <<>>
    /\ ~EmitSkipped(StagedBuffer, StagedOptions)

\* C28: a cell that reaches the compiler is committed (buffer kept, committed
\* line count and last emission advanced) exactly when its compile collects
\* no diagnostic and emission is not skipped; in every other case it is
\* rolled back and an error is raised.
C28_CommittedIffClean ==
    (Returned /\ outcome # "malformed") =>
        /\ outcome = "accepted" <=> CleanCompile
        /\ outcome = "rejected" <=> ~CleanCompile
        /\ CleanCompile =>
              /\ snapshot = StagedBuffer
              /\ prevLines = Len(StagedBuffer)
              /\ prevJSCode = EmitOutput(StagedBuffer, StagedOptions)
        /\ ~CleanCompile =>
              /\ snapshot = pre.snapshot
              /\ prevLines = pre.prevLines
              /\ prevJSCode = pre.prevJSCode

\* a cell without a diagnostic is rejected because emission was skipped
C28_Witness ==
    /\ Returned /\ outcome = "rejected"
    /\ AllDiagnostics(StagedBuffer, StagedOptions) = <<>>
    /\ EmitSkipped(StagedBuffer, StagedOptions)
    /\ value = <<>>

\* the added runs of the line diff from the last committed emission to the
\* emission of the last call
AddedRuns == DiffLinesAdded(pre.prevJSCode, prevJSCode)

\* the runs from the i-th on, put together with `between` before each but
\* the first
RECURSIVE RunsFrom(_, _, _)
RunsFrom(runs, i, between) ==
    IF i > Len(runs) THEN <<>>
    ELSE (IF i = 1 THEN <<>> ELSE between) \o runs[i] \o RunsFrom(runs, i + 1, between)

\* C29 as stated: the slice of an accepted cell is the added lines of the
\* diff in order with nothing between them, and it is the appended suffix
\* when the new emission is the previous one with lines appended.
C29_AddedLinesAlone ==
    (Returned /\ outcome = "accepted") =>
        /\ codeslice = RunsFrom(AddedRuns, 1, <<>>)
        /\ IsPrefix(pre.prevJSCode, prevJSCode) =>
              codeslice = SubSeq(prevJSCode, Len(pre.prevJSCode) + 1, Len(prevJSCode))

\* C29, amended: the slice of an accepted cell is the added runs of the diff
\* in order, with one newline between one run and the next; it is the
\* appended suffix when the new emission is the previous one with lines
\* appended.
C29_AddedRunsJoined ==
    (Returned /\ outcome = "accepted") =>
        /\ codeslice = RunsFrom(AddedRuns, 1, <<NL>>)
        /\ IsPrefix(pre.prevJSCode, prevJSCode) =>
              codeslice = SubSeq(prevJSCode, Len(pre.prevJSCode) + 1, Len(prevJSCode))

\* the diff of an accepted cell has two added runs, with unchanged lines
\* between them
C29_Witness ==
    /\ Returned /\ outcome = "accepted"
    /\ Len(AddedRuns) = 2
    /\ Len(codeslice) = Len(AddedRuns[1]) + Len(AddedRuns[2]) + 1

\* C30: after a cell is rejected, by the compiler or for a directive value
\* that does not parse, the base options and the effective options are
\* those before the cell.
C30_OptionsAtomic ==
    (Returned /\ outcome \in {"rejected", "malformed"}) =>
        /\ options = pre.options
        /\ copiedOpts = pre.copiedOpts

\* the command line has --install=local or --install=global
InstallGiven ==
    \E i \in 1..Len(argv) : argv[i] \in {<<"install", "local">>, <<"install", "global">>}

\* C25: started with --install=local or --install=global, the launcher
\* never spawns the frontend.
C25_RegistersWithoutDashboard ==
    InstallGiven => ~spawned

\* the kernel was registered by a launcher given --install, which ended
\* without the frontend
C25_Witness ==
    /\ InstallGiven
    /\ launcher = "done"
    /\ kernelArgv # <<>>
    /\ majorVersionOf(Main.frontendVersion) >= 3
    /\ ~spawned

\* the kernel process parsed its arguments and did not end
Configured == configBuilder.status = "configured"

\* C26: started with --ts-protocol=V, the kernel ends up with protocol
\* version V, whatever frontend version is detected.
C26_ProtocolAsGiven ==
    Configured =>
        \A i \in 1..Len(argv) :
            (/\ argv[i][1] = "ts-protocol"
             /\ \A j \in (i + 1)..Len(argv) : argv[j][1] # "ts-protocol")
                => configBuilder.protocolVer = Tail(argv[i])

\* the options the launcher forwards, by the name the kernel gets
Forwarded ==
    {"debug", "off-es-module-interop", "hide-undefined", "hide-execution-result",
     "protocol", "startup-script", "working-dir"}

\* the Configuration holds what the parser sets when it consumes arg as the
\* option of its name
Consumed(arg) ==
    CASE arg[1] = "debug" -> configBuilder.onDebug
      [] arg[1] = "off-es-module-interop" -> configBuilder.offESInterop
      [] arg[1] = "hide-undefined" -> configBuilder.hideUndefined
      [] arg[1] = "hide-execution-result" -> configBuilder.hideExecutionResult
      [] arg[1] = "protocol" ->
             \E k \in 3..Len(kernelArgv) :
                 kernelArgv[k][1] = "protocol" /\ configBuilder.protocolVer = Tail(kernelArgv[k])
      [] arg[1] = "startup-script" -> configBuilder.startupScript = Tail(arg)
      [] arg[1] = "working-dir" -> configBuilder.workingDir = Tail(arg)

\* C27: every option the launcher forwards is consumed by the parser of the
\* kernel as that option, and the kernel gets through its arguments with
\* the connection file alone taken for the connection file.
C27_ForwardedOptionsConsumed ==
    configBuilder.status # "not started" =>
        /\ Configured
        /\ configBuilder.conn = ConnectionFile
        /\ \A i \in 3..Len(kernelArgv) :
              kernelArgv[i][1] \in Forwarded => Consumed(kernelArgv[i])

\* C31: the error of a cell the compiler rejects has a message that is not
\* empty, also when emission is skipped and no diagnostic is reported.
C31_MessageNotEmpty ==
    (Returned /\ outcome = "rejected") => value # <<>>

\* the version query answered with a version
VersionIdentified == Main.frontendVersion \in FrontendVersions \ {"n/a"}

\* setProtocol chose the protocol of the frontend and passed it on
ProtocolSet ==
    LET v == IF majorVersionOf(Main.frontendVersion) < 3 THEN "4.1" ELSE "5.1"
    IN  /\ Main.protocolVersion = <<v>>
        /\ \E i \in 1..Len(Arguments.kernel) : Arguments.kernel[i] = <<"protocol", v>>

\* the install command was started and its callback has run
InstallCompleted == copy.called > 0 /\ launcher \in {"done", "exit 1"}

\* C32 as stated: the frontend is spawned only after the version is
\* identified, the protocol set and the install command completed.
C32_SpawnedAfterInstallCommand ==
    spawned => (VersionIdentified /\ ProtocolSet /\ InstallCompleted)

\* C32: the frontend is spawned only after the version is identified and
\* the protocol set, and with a frontend of v3 or later only after the
\* install command completed without error and its files are removed (an
\* earlier frontend runs no install command); it is spawned in the last
\* step of the launch, which is taken once.
C32_LauncherOrdering ==
    /\ [](spawned => /\ VersionIdentified /\ ProtocolSet
                     /\ launcher = "done"
                     /\ majorVersionOf(Main.frontendVersion) >= 3
                            => (InstallCompleted /\ tmpFiles = {}))
    /\ [][/\ (spawned' /\ ~spawned) => (launcher # "done" /\ launcher' = "done")
          /\ launcher = "done" => (launcher' = "done" /\ spawned' = spawned)]_vars

C32_Witness ==
    spawned /\ majorVersionOf(Main.frontendVersion) >= 3 /\ InstallCompleted

\* both version queries failed
BothFailed ==
    /\ Main.frontIdentificationError = ExecError
    /\ Main.frontendVersion = null
    /\ launcher # "ipython --version"

\* the launch is past the version queries: their callback has been called
PastQueries == launcher \in {"copy", "kernelspec install", "done"}

\* C33: ipython is asked only after jupyter failed; a query that succeeds
\* calls the callback, which is called once (no query follows it); when
\* both fail the launcher exits with 1, installs nothing and spawns nothing.
C33_DetectionFallback ==
    /\ [](/\ launcher = "ipython --version"
             => (Main.frontIdentificationError = ExecError /\ Main.frontendVersion = null)
          /\ PastQueries => Main.frontendVersion \in FrontendVersions
          /\ BothFailed => /\ launcher = "exit 1"
                           /\ kernelArgv = <<>> /\ ~spawned
                           /\ ~copy.started /\ tmpFiles = {})
    /\ [][/\ (Main.frontendVersion = null /\ Main'.frontendVersion # null)
               => (/\ launcher \in {"jupyter --version", "ipython --version"}
                   /\ launcher' \notin {"jupyter --version", "ipython --version"})
          /\ Main.frontendVersion # null => Main'.frontendVersion = Main.frontendVersion
          /\ launcher' = "ipython --version"
               => launcher \in {"jupyter --version", "ipython --version"}]_vars

C33_Witness == BothFailed /\ launcher = "exit 1"

\* C34: once the callback of the install command has run, with or without
\* error, nothing is left of kernel.json, the copied logos, the spec
\* directory and the temporary directory; until the command is started
\* they are all there.
C34_InstallCleansUp ==
    /\ InstallCompleted => tmpFiles = {}
    /\ launcher = "kernelspec install"
         => tmpFiles = SpecFiles \cup {Logos[i] : i \in 1..Len(Logos)}

C34_Witness == InstallCompleted /\ launcher = "exit 1" /\ ~spawned /\ kernelArgv = <<>>

\* the read stream of every image has ended
AllRead == \A i \in 1..Len(copy.images) : copy.streams[i].read = "ended"

\* the images are copied one at a time, and the callback, when given, is
\* called once, after the last read stream ended, with all destination paths
CopiesInTurn ==
    /\ Cardinality({i \in 1..Len(copy.images) : copy.streams[i].read = "open"}) <= 1
    /\ copy.called <= (IF copy.callback THEN 1 ELSE 0)
    /\ copy.called = 1 => (AllRead /\ copy.passed = copy.images)
    /\ (copy.callback /\ AllRead) => copy.called = 1

\* C35: for any images, with or without a callback, copyAsync copies the
\* images one at a time, calls the callback (when given) once, after every
\* read stream ended, with all destination paths, and throws nothing.
C35_CopyAsync ==
    copy.started => (CopiesInTurn /\ ~copy.thrown)

\* every logo is written out: the write stream of every image has finished
AllWritten == \A i \in 1..Len(copy.images) : copy.streams[i].write = "finished"

\* C36: the install command is started only after the write stream of
\* every logo has finished, in every order of the stream events.
C36_InstallAfterWrites ==
    (launcher = "kernelspec install" \/ InstallCompleted) => AllWritten

\* a result, or an error record with ename, evalue and traceback
IsResponse(message) ==
    \/ DOMAIN message = {"mime"}
    \/ DOMAIN message = {"names"}
    \/ DOMAIN message = {"error"}
         /\ DOMAIN message.error = {"ename", "evalue", "traceback"}

\* C37: every request with the action "run" or "getAllPropertyNames" is
\* answered with one message, a result or an error record, whatever the
\* code returns or throws; a request with another action with none.
C37_OneResponse ==
    \A i \in 1..Len(requests) :
        IF requests[i][1] \in {"run", "getAllPropertyNames"}
        THEN Len(sent[i]) = 1 /\ IsResponse(sent[i][1])
        ELSE sent[i] = <<>>

\* the same for code that returns, or that throws an Error object
ErrorObjectsAnswered ==
    \A i \in 1..Len(requests) :
        (~run(requests[i][2]).threw \/ run(requests[i][2]).v.type = "error")
            => IF requests[i][1] \in {"run", "getAllPropertyNames"}
               THEN Len(sent[i]) = 1 /\ IsResponse(sent[i][1])
               ELSE sent[i] = <<>>
====
